---- MODULE Spec2Model ----
(***************************************************************************)
(* HackJusticeAPI: the Express route handlers of routes/users.js and       *)
(* routes/games.js over the two Mongoose collections (user, game).         *)
(* Every handler is cut at its awaits: one action per resumption, so that  *)
(* concurrent requests interleave exactly where the event loop lets them.  *)
(***************************************************************************)
EXTENDS Integers, Sequences, FiniteSets, TLC

\* ------------------------------------------------------------------ bounds
MaxReqs == 2      \* requests suspended on an await at the same time
MaxServed == 3    \* requests that get as far as suspending, in one run

Reqs == 1..MaxReqs

\* ------------------------------------------------------------- input sets
Emails == {"a@x.com", "b@x.com"}
Plain == "secret1"
Passwords == {"secret1", "wrongpass"}
NoBody == [email |-> "", pw |-> "", title |-> ""]
Creds(e, p) == [email |-> e, pw |-> p, title |-> ""]
\* The bodies of POST /users: well-formed ones, one whose email is none, one
\* whose password is too short.
RegisterBodies ==
    {Creds(e, Plain) : e \in Emails} \cup {Creds("nomail", Plain), Creds("b@x.com", "short")}
\* The bodies of POST /users/auth: well-formed ones, one whose email is none,
\* one without a password.
LoginBodies ==
    {Creds(e, p) : e \in Emails, p \in Passwords}
        \cup {Creds("nomail", Plain), Creds("a@x.com", "")}
\* The bodies of POST /games: with a title and without.
GameBodies == {[email |-> "", pw |-> "", title |-> t] : t \in {"Quiz1", ""}}
NoToken == 0
BadToken == -1
BadId == -1

\* An optional document: <<>> is null, <<d>> is the document d.
Null == <<>>
Some(d) == <<d>>
IsNull(o) == o = <<>>
Doc(o) == o[1]

\* ------------------------------------------------------------ HTTP status
OK == 200
BadRequest == 400
Unauthorized == 401
NotFound == 404
ServerError == 500
\* The status of the middleware's "unauthorized" rejection.
AuthDenied == 401

\* ----------------------------------------------------------- pure helpers
\* bcrypt.hash / bcrypt.compare: compare accepts exactly the hash of the plaintext.
BcryptHash(p) == <<"bcrypt", p>>
BcryptCompare(p, h) == h = BcryptHash(p)

\* jwt.sign(payload): the token embeds the user id.
JwtSign(id) == id

\* .select("-password"): the document without its password field.
SelectNoPassword(o) ==
    IF IsNull(o) THEN Null
    ELSE Some([id |-> Doc(o).id, email |-> Doc(o).email,
               admin |-> Doc(o).admin, games |-> Doc(o).games])

\* The callback of user.games.every(...) has a block body without a return:
\* it evaluates the comparison and yields undefined, which is falsy.
EveryCallback(element, game_id) == FALSE

\* Array.prototype.every: true iff the callback is truthy on every element.
GamesEvery(gs, game_id) == \A i \in 1..Len(gs) : EveryCallback(gs[i], game_id)

Count(gs, g) == Cardinality({i \in 1..Len(gs) : gs[i] = g})

\* ------------------------------------------------------------------ state
VARIABLES
    users,      \* user collection: id -> [id, email, password, admin, games]
    nextUid,    \* next user id the store hands out
    games,      \* game collection: the set of ids of the stored games
    nextGid,    \* next game id the store hands out
    req,        \* the requests suspended on an await, one record per slot
    served,     \* how many requests have suspended so far
    sent        \* the requests the latest step has answered or dropped

vars == <<users, nextUid, games, nextGid, req, served, sent>>

Idle ==
    [kind |-> "idle", pc |-> "idle", token |-> NoToken, uid |-> 0, arg |-> 0,
     email |-> "", pw |-> "", title |-> "", user |-> Null, admin |-> Null, game |-> Null,
     pushed |-> FALSE, status |-> 0, nresp |-> 0, calls |-> 0,
     body |-> {}, err |-> "", prior |-> FALSE, afterAck |-> FALSE, actorGone |-> FALSE]

\* The store the server is started on: one administrator, created out of band
\* (no route sets admin), and one game.
Init ==
    /\ users = (1 :> [id |-> 1, email |-> "a@x.com", password |-> BcryptHash(Plain),
                       admin |-> TRUE, games |-> <<>>])
    /\ nextUid = 2
    /\ games = {1}
    /\ nextGid = 2
    /\ req = [r \in Reqs |-> Idle]
    /\ served = 0
    /\ sent = {}

\* The same store, whose one user may or may not be an administrator: a store
\* without any administrator is one the program can be started on.
InitAnyStore ==
    /\ \E a \in BOOLEAN :
         users = (1 :> [id |-> 1, email |-> "a@x.com", password |-> BcryptHash(Plain),
                        admin |-> a, games |-> <<>>])
    /\ nextUid = 2
    /\ games = {1}
    /\ nextGid = 2
    /\ req = [r \in Reqs |-> Idle]
    /\ served = 0
    /\ sent = {}

Store == <<users, nextUid, games, nextGid>>

\* The users whose admin flag is set.
Admins == {u \in DOMAIN users : users[u].admin}

\* The ids a client can name: those handed out so far and the next one, which
\* no record has yet. Ids are never reused.
UserIds == 1..nextUid
GameIds == 1..nextGid

\* ---------------------------------------------------------- store queries
FindById(id) == IF id \in DOMAIN users THEN Some(users[id]) ELSE Null
FindOneByEmail(e) ==
    IF \E u \in DOMAIN users : users[u].email = e
    THEN Some(users[CHOOSE u \in DOMAIN users : users[u].email = e])
    ELSE Null
GameFindById(id) == IF id \in games THEN Some([id |-> id]) ELSE Null

\* A schema without the unique index: every insert is let through.
UniqueEmailOff(e) == TRUE

\* The unique index on user.email: an insert is refused when the email is taken.
UniqueEmailFree(e) == ~ \E u \in DOMAIN users : users[u].email = e

\* ------------------------------------------------------------- responding
\* The bodies sent: { msg: ... }, and a document or null as JSON.
Msg(m) == {[msg |-> m]}
Json(o) == IF IsNull(o) THEN {} ELSE {Doc(o)}

\* res.status(s).json(b) on the request q: it is answered.
Respond(q, s, b) == [q EXCEPT !.pc = "done", !.status = s, !.nresp = @ + 1, !.body = b]

\* The catch block of the handlers that take no id: 500 whatever was thrown.
Catch(q, errKind) == [Respond(q, ServerError, {}) EXCEPT !.err = errKind]

\* An exception thrown outside every try block: the request is never answered.
Uncaught(q, errKind) == [q EXCEPT !.pc = "uncaught", !.err = errKind]

\* A catch block without the test of err.kind: every error is "not found".
CatchAllNotFound(q, errKind, m) == [Respond(q, NotFound, Msg(m)) EXCEPT !.err = errKind]

\* The catch block of the handlers that take an id: a CastError (err.kind is
\* "ObjectId", thrown by findById on a malformed id) is answered 404, anything
\* else 500.
CatchId(q, errKind, m) ==
    IF errKind = "ObjectId" THEN [Respond(q, NotFound, Msg(m)) EXCEPT !.err = errKind]
    ELSE [Respond(q, ServerError, {}) EXCEPT !.err = errKind]

\* ---------------------------------------------------------------- routing
\* A routing table where GET /games/:game_id is declared without auth.
UsesAuthButGetGame(kind) ==
    kind \in {"GetAuth", "DeleteUser", "PostGame", "Complete", "DeleteGame"}

\* The routes whose middleware list holds auth.
UsesAuth(kind) ==
    kind \in {"GetAuth", "DeleteUser", "PostGame", "GetGame", "Complete", "DeleteGame"}

\* The express-validator checks of the routes that have some: isEmail and
\* isLength({ min: 6 }) on POST /users, isEmail and exists on POST /users/auth,
\* notEmpty on POST /games.
IsEmail(e) == e \in Emails
IsLength6(p) == p \in Passwords
Exists(p) == p # ""
NotEmpty(t) == t # ""
ValidationPasses(q) ==
    CASE q.kind = "Register" -> IsEmail(q.email) /\ IsLength6(q.pw)
      [] q.kind = "Login" -> IsEmail(q.email) /\ Exists(q.pw)
      [] q.kind = "PostGame" -> NotEmpty(q.title)
      [] OTHER -> TRUE

\* middleware/auth.js: the token of the request header, verified.
TokenPresent(t) == t # NoToken
TokenValid(t) == t > 0
TokenUserId(t) == t

\* What a client can send: no token, a token verify rejects (malformed,
\* tampered, expired), or a token the server issued for a user id.
Tokens == {NoToken, BadToken} \cup (1..(nextUid - 1))
TokensOf(kind) == IF UsesAuth(kind) THEN Tokens ELSE {NoToken}

\* The ids a request names in its path. A request the middleware turns away is
\* answered before anything reads its id: one id stands for all of them.
IdsOf(kind, t, ids) ==
    IF UsesAuth(kind) /\ ~TokenValid(t) THEN {1} ELSE ids \cup {BadId}
\* Likewise for the body of POST /games.
GameBodiesOf(t) ==
    IF UsesAuth("PostGame") /\ ~TokenValid(t) THEN {[NoBody EXCEPT !.title = "Quiz1"]}
    ELSE GameBodies

\* A request as it arrives.
Arrive(kind, t, a, b) ==
    [Idle EXCEPT !.kind = kind, !.pc = "arrived", !.token = t, !.arg = a,
                 !.email = b.email, !.pw = b.pw, !.title = b.title]

\* middleware/auth.js: a request without a token, or with one verify rejects,
\* is answered "unauthorized" and goes no further; otherwise the identity of
\* the token is attached to the request.
AuthMiddleware(q) ==
    IF ~TokenPresent(q.token) THEN Respond(q, AuthDenied, Msg("unauthorized"))
    ELSE IF ~TokenValid(q.token) THEN Respond(q, AuthDenied, Msg("unauthorized"))
    ELSE [q EXCEPT !.uid = TokenUserId(q.token)]

\* The middleware chain in front of the handler: auth where the route lists it,
\* then the handler's own validationResult test. The result is the request
\* answered (pc "done") or inside its handler (pc "handler").
Enter(q) ==
    LET a == IF UsesAuth(q.kind) THEN AuthMiddleware(q) ELSE q IN
    IF a.pc = "done" THEN a
    ELSE LET in == [a EXCEPT !.pc = "handler", !.calls = @ + 1,
                             !.actorGone = UsesAuth(q.kind) /\ a.uid \notin DOMAIN users]
         IN IF ~ValidationPasses(q)
            THEN Respond(in, BadRequest, Msg("errors"))
            ELSE in

\* The responses of a step are observed before the next step is taken.
Quiet == sent = {}

\* The slot a new suspended request takes: the lowest free one.
Free(r) ==
    /\ Quiet
    /\ served < MaxServed
    /\ req[r].pc = "idle"
    /\ \A q \in Reqs : q < r => req[q].pc # "idle"

\* The step leaves the request q either answered or suspended in slot r.
Leave(r, x) ==
    \E q \in {x} :
    IF q.pc = "done"
    THEN /\ sent' = {q}
         /\ req' = req
         /\ served' = served
    ELSE /\ sent' = {}
         /\ req' = [req EXCEPT ![r] = q]
         /\ served' = served + 1

\* The request in slot r resumes and ends as q: answered, answered with its
\* delete() still on its way (pc "deleting"), or suspended again.
Resume(r, x) ==
    \E q \in {x} :
    /\ sent' = IF q.pc \in {"done", "deleting"} THEN {q} ELSE {}
    /\ req' = [req EXCEPT ![r] = IF q.pc = "done" THEN Idle ELSE q]
    /\ served' = served

\* An exception nobody catches ends the process: the requests suspended in a
\* handler are never answered. A delete() already handed to the driver is not
\* recalled.
Crash(x) ==
    \E q \in {x} :
    /\ sent' = {q} \cup {req[r] : r \in {y \in Reqs : req[y].pc \notin {"idle", "deleting"}}}
    /\ req' = [r \in Reqs |-> IF req[r].pc = "deleting" THEN req[r] ELSE Idle]
    /\ served' = served

At(r, kind, pc) == Quiet /\ req[r].kind = kind /\ req[r].pc = pc

\* No request is suspended inside a handler.
NoneSuspended == \A r \in Reqs : req[r].pc \in {"idle", "deleting"}

\* A handler that only reads the store is answered in the step it arrives in.
\* The requests suspended at that moment have written nothing yet (every
\* handler writes in its last step), so the store it reads, and its answer,
\* are those of a run in which none of them has started: the step is taken
\* with none suspended.
Answer(x) == NoneSuspended /\ sent' = {x} /\ req' = req /\ served' = served

\* ------------------------------------------------- routes/users.js handlers
\* A registration that stores the admin flag set.
NewUserAsAdmin(e, p) == [id |-> 0, email |-> e, password |-> p, admin |-> TRUE, games |-> <<>>]

\* new User({ email, password, admin: false }).
NewUser(e, p) == [id |-> 0, email |-> e, password |-> p, admin |-> FALSE, games |-> <<>>]

\* The outcomes of jwt.sign with a callback: a token, an error handed to the
\* callback inside the call (the callback's throw reaches the handler's catch),
\* or an error handed to it later (the throw is caught by nobody).
SignOutcomes == {"token", "errSync", "errAsync"}

\* POST /users up to user.save(): findOne, the test, the hashing.
RegisterFindOne(q, fail, hashFail) ==
    LET user == FindOneByEmail(q.email) IN
    IF fail THEN Catch(q, "store")
    ELSE IF ~IsNull(user) THEN Respond(q, BadRequest, Msg("User already exists"))
    ELSE IF hashFail THEN Catch(q, "bcrypt")
    ELSE [q EXCEPT !.pc = "save", !.user = Some(NewUser(q.email, BcryptHash(q.pw)))]

\* POST /users arrives and runs to the await of user.save().
RegisterStart(r) ==
    /\ Free(r)
    /\ \E t \in TokensOf("Register"), b \in RegisterBodies :
         \E q \in {Enter(Arrive("Register", t, 0, b))} :
         \E o \in {IF q.pc = "done" THEN q ELSE RegisterFindOne(q, fail, hashFail) :
                     fail \in BOOLEAN, hashFail \in BOOLEAN} :
           Leave(r, o)
    /\ UNCHANGED Store

\* POST /users, resumed after user.save(): the token is signed and sent.
RegisterSave(r) ==
    /\ At(r, "Register", "save")
    /\ \E fail \in BOOLEAN, sign \in SignOutcomes :
         IF fail \/ ~UniqueEmailFree(req[r].email)
         THEN /\ Resume(r, Catch(req[r], IF fail THEN "store" ELSE "E11000"))
              /\ UNCHANGED Store
         ELSE LET q == [req[r] EXCEPT !.user = Some([Doc(@) EXCEPT !.id = nextUid])] IN
              /\ users' = users @@ (nextUid :> Doc(q.user))
              /\ nextUid' = nextUid + 1
              /\ UNCHANGED <<games, nextGid>>
              /\ CASE sign = "token" -> Resume(r, Respond(q, OK, {[token |-> JwtSign(nextUid)]}))
                   [] sign = "errSync" -> Resume(r, Catch(q, "jwt"))
                   [] sign = "errAsync" -> Crash(Uncaught(q, "jwt"))

\* POST /users/auth inside its handler: findOne, compare, sign.
LoginRun(q, fail, sign) ==
    LET user == FindOneByEmail(q.email) IN
    IF fail THEN Catch(q, "store")
    ELSE IF IsNull(user) THEN Respond(q, BadRequest, Msg("Invalid Credentials"))
    ELSE IF ~BcryptCompare(q.pw, Doc(user).password)
      THEN Respond(q, BadRequest, Msg("Invalid Credentials"))
    ELSE CASE sign = "token" -> Respond(q, OK, {[token |-> JwtSign(Doc(user).id)]})
           [] sign = "errSync" -> Catch(q, "jwt")
           [] sign = "errAsync" -> Uncaught(q, "jwt")

\* POST /users/auth.
Login ==
    /\ Quiet
    /\ \E t \in TokensOf("Login"), b \in LoginBodies :
         \E q \in {Enter(Arrive("Login", t, 0, b))} :
         \E o \in {IF q.pc = "done" THEN q ELSE LoginRun(q, fail, sign) :
                     fail \in BOOLEAN, sign \in SignOutcomes} :
           IF o.pc = "uncaught" THEN Crash(o) ELSE Answer(o)
    /\ UNCHANGED Store

\* GET /users/auth inside its handler: User.findById(req.user.id).select("-password").
GetAuthRun(q, fail) ==
    IF fail THEN Catch(q, "store")
    ELSE Respond(q, OK, Json(SelectNoPassword(FindById(q.uid))))

\* GET /users/auth.
GetAuth ==
    /\ Quiet
    /\ \E t \in TokensOf("GetAuth") :
         \E q \in {Enter(Arrive("GetAuth", t, 0, NoBody))} :
         \E o \in {IF q.pc = "done" THEN q ELSE GetAuthRun(q, fail) : fail \in BOOLEAN} :
           Answer(o)
    /\ UNCHANGED Store

\* GET /users inside its handler: User.find().select("-password").
ListUsersRun(q, fail) ==
    IF fail THEN Catch(q, "store")
    ELSE Respond(q, OK, {Doc(SelectNoPassword(Some(users[u]))) : u \in DOMAIN users})

\* GET /users.
ListUsers ==
    /\ Quiet
    /\ \E t \in TokensOf("ListUsers") :
         \E q \in {Enter(Arrive("ListUsers", t, 0, NoBody))} :
         \E o \in {IF q.pc = "done" THEN q ELSE ListUsersRun(q, fail) : fail \in BOOLEAN} :
           Answer(o)
    /\ UNCHANGED Store

\* DELETE /users/:user_id up to the second findById.
DeleteUserLoadTarget(q, fail) ==
    IF q.arg = BadId THEN CatchId(q, "ObjectId", "User not found")
    ELSE IF fail THEN CatchId(q, "store", "User not found")
    ELSE [q EXCEPT !.pc = "loadActor", !.user = FindById(q.arg)]

\* DELETE /users/:user_id arrives and runs to the await of the acting user.
DeleteUserStart(r) ==
    /\ Free(r)
    /\ \E t \in TokensOf("DeleteUser") :
         \E a \in IdsOf("DeleteUser", t, UserIds) :
         \E q \in {Enter(Arrive("DeleteUser", t, a, NoBody))} :
         \E o \in {IF q.pc = "done" THEN q ELSE DeleteUserLoadTarget(q, fail) :
                     fail \in BOOLEAN} :
           Leave(r, o)
    /\ UNCHANGED Store

\* A test that lets only administrators delete.
MayDeleteUserAdminOnly(admin, user_id, acting_id) == admin.admin

\* The test of DELETE /users/:user_id on the loaded acting user.
MayDeleteUser(admin, user_id, acting_id) == admin.admin \/ user_id = acting_id

\* DELETE /users/:user_id after both loads: the decision and the response.
\* On success user.delete() has been called and is not awaited (pc "deleting").
DeleteUserDecide(q, admin, fail) ==
    LET p == [q EXCEPT !.admin = admin] IN
    IF fail THEN CatchId(q, "store", "User not found")
    ELSE IF IsNull(p.user) THEN Respond(p, NotFound, Msg("User not found"))
    ELSE IF IsNull(admin) THEN CatchId(p, "TypeError", "User not found")
    ELSE IF MayDeleteUser(Doc(admin), p.arg, p.uid)
      THEN [Respond(p, OK, Msg("User successfully deleted from our platform"))
              EXCEPT !.pc = "deleting"]
    ELSE Respond(p, Unauthorized, Msg("Not allowed to delete this user"))

\* DELETE /users/:user_id, resumed after User.findById(req.user.id).
DeleteUserLoadActor(r) ==
    /\ At(r, "DeleteUser", "loadActor")
    /\ \E o \in {DeleteUserDecide(req[r], FindById(req[r].uid), fail) : fail \in BOOLEAN} :
         Resume(r, o)
    /\ UNCHANGED Store

\* ------------------------------------------------- routes/games.js handlers
\* POST /games up to newGame.save(): the acting user is loaded and tested.
PostGameLoadActor(q, fail) ==
    LET admin == SelectNoPassword(FindById(q.uid))
        p == [q EXCEPT !.admin = admin]
    IN
    IF fail THEN Catch(q, "store")
    ELSE IF IsNull(admin) THEN Catch(p, "TypeError")
    ELSE IF ~Doc(admin).admin
      THEN Respond(p, Unauthorized,
                   Msg("Not authorizend. Only administrators can add new games."))
    ELSE [p EXCEPT !.pc = "save"]

\* POST /games arrives and runs to the await of newGame.save().
PostGameStart(r) ==
    /\ Free(r)
    /\ \E t \in TokensOf("PostGame") :
         \E b \in GameBodiesOf(t) :
         \E q \in {Enter(Arrive("PostGame", t, 0, b))} :
         \E o \in {IF q.pc = "done" THEN q ELSE PostGameLoadActor(q, fail) :
                     fail \in BOOLEAN} :
           Leave(r, o)
    /\ UNCHANGED Store

\* POST /games, resumed after newGame.save().
PostGameSave(r) ==
    /\ At(r, "PostGame", "save")
    /\ \E fail \in BOOLEAN :
         IF fail
         THEN /\ Resume(r, Catch(req[r], "store"))
              /\ UNCHANGED <<games, nextGid>>
         ELSE /\ games' = games \cup {nextGid}
              /\ nextGid' = nextGid + 1
              /\ Resume(r, Respond([req[r] EXCEPT !.game = Some([id |-> nextGid])],
                                   OK, {[id |-> nextGid]}))
    /\ UNCHANGED <<users, nextUid>>

\* GET /games inside its handler: Game.find().sort({ date: -1 }).
ListGamesRun(q, fail) ==
    IF fail THEN Catch(q, "store")
    ELSE Respond(q, OK, {[id |-> g] : g \in games})

\* GET /games.
ListGames ==
    /\ Quiet
    /\ \E t \in TokensOf("ListGames") :
         \E q \in {Enter(Arrive("ListGames", t, 0, NoBody))} :
         \E o \in {IF q.pc = "done" THEN q ELSE ListGamesRun(q, fail) : fail \in BOOLEAN} :
           Answer(o)
    /\ UNCHANGED Store

\* The success response of a delete of the record <<collection, id>> has been
\* sent: the request that sent it is past its response.
Acked(coll, id) ==
    \E x \in Reqs : /\ req[x].pc = "deleting"
                    /\ req[x].arg = id
                    /\ req[x].kind = (IF coll = "game" THEN "DeleteGame" ELSE "DeleteUser")

\* GET /games/:game_id inside its handler: Game.findById(req.params.game_id).
GetGameRun(q, fail) ==
    LET game == GameFindById(q.arg)
        p == [q EXCEPT !.afterAck = Acked("game", q.arg)]
    IN
    IF q.arg = BadId THEN CatchId(p, "ObjectId", "Game not found")
    ELSE IF fail THEN CatchId(p, "store", "Game not found")
    ELSE IF IsNull(game) THEN Respond(p, NotFound, Msg("Game not found"))
    ELSE Respond([p EXCEPT !.game = game], OK, Json(game))

\* GET /games/:game_id.
GetGame ==
    /\ Quiet
    /\ \E t \in TokensOf("GetGame") :
         \E a \in IdsOf("GetGame", t, GameIds) :
         \E q \in {Enter(Arrive("GetGame", t, a, NoBody))} :
         \E o \in {IF q.pc = "done" THEN q ELSE GetGameRun(q, fail) : fail \in BOOLEAN} :
           Answer(o)
    /\ UNCHANGED Store

\* PUT /games/complete/:game_id up to the second findById.
CompleteLoadUser(q, fail) ==
    IF fail THEN CatchId(q, "store", "Game not found")
    ELSE [q EXCEPT !.pc = "loadGame", !.user = FindById(q.uid)]

\* PUT /games/complete/:game_id arrives and runs to the await of the game.
CompleteStart(r) ==
    /\ Free(r)
    /\ \E t \in TokensOf("Complete") :
         \E a \in IdsOf("Complete", t, GameIds) :
         \E q \in {Enter(Arrive("Complete", t, a, NoBody))} :
         \E o \in {IF q.pc = "done" THEN q ELSE CompleteLoadUser(q, fail) : fail \in BOOLEAN} :
           Leave(r, o)
    /\ UNCHANGED Store

\* PUT /games/complete/:game_id after both loads, up to user.save(): the
\* every() test and the push on the loaded document.
CompleteTest(q, game, fail) ==
    LET p == [q EXCEPT !.game = game] IN
    IF q.arg = BadId THEN CatchId(q, "ObjectId", "Game not found")
    ELSE IF fail THEN CatchId(q, "store", "Game not found")
    ELSE IF IsNull(game) THEN Respond(p, NotFound, Msg("Game not found"))
    ELSE IF IsNull(p.user) THEN CatchId(p, "TypeError", "Game not found")
    ELSE IF GamesEvery(Doc(p.user).games, p.arg)
      THEN [p EXCEPT !.pc = "save", !.pushed = TRUE,
                     !.user = Some([Doc(@) EXCEPT !.games = Append(@, p.arg)])]
    ELSE [p EXCEPT !.pc = "save"]

\* PUT /games/complete/:game_id, resumed after Game.findById(req.params.game_id).
CompleteLoadGame(r) ==
    /\ At(r, "Complete", "loadGame")
    /\ \E o \in {CompleteTest(req[r], GameFindById(req[r].arg), fail) : fail \in BOOLEAN} :
         Resume(r, o)
    /\ UNCHANGED Store

\* What user.save() sends for the document of q: the push as an atomic $push
\* on the stored array, nothing when the document is unmodified.
SavedGames(stored, q) == IF q.pushed THEN Append(stored, q.arg) ELSE stored

\* PUT /games/complete/:game_id, resumed after user.save(). A $push that
\* matches no document is an error; whether an unmodified save of a vanished
\* document is one depends on the Mongoose version.
CompleteSave(r) ==
    /\ At(r, "Complete", "save")
    /\ \E fail \in BOOLEAN, strict \in BOOLEAN :
         LET q == req[r]
             there == q.uid \in DOMAIN users
             ok == ~fail /\ (there \/ (~q.pushed /\ ~strict))
             done == IF ok THEN Respond(q, OK, Json(q.user))
                     ELSE CatchId(q, IF fail THEN "store" ELSE "VersionError", "Game not found")
         IN
         /\ users' = IF ok /\ there
                     THEN [users EXCEPT ![q.uid].games = SavedGames(@, q)]
                     ELSE users
         /\ sent' = {done}
         /\ req' = [x \in Reqs |->
                      IF x = r THEN Idle
                      ELSE IF ok /\ req[x].kind = "Complete" /\ req[x].uid = q.uid
                              /\ req[x].arg = q.arg
                        THEN [req[x] EXCEPT !.prior = TRUE]
                      ELSE req[x]]
    /\ UNCHANGED <<nextUid, games, nextGid, served>>

\* DELETE /games/:game_id up to the second findById.
DeleteGameLoadTarget(q, fail) ==
    IF q.arg = BadId THEN CatchId(q, "ObjectId", "Game not found")
    ELSE IF fail THEN CatchId(q, "store", "Game not found")
    ELSE [q EXCEPT !.pc = "loadActor", !.game = GameFindById(q.arg)]

\* DELETE /games/:game_id arrives and runs to the await of the acting user.
DeleteGameStart(r) ==
    /\ Free(r)
    /\ \E t \in TokensOf("DeleteGame") :
         \E a \in IdsOf("DeleteGame", t, GameIds) :
         \E q \in {Enter(Arrive("DeleteGame", t, a, NoBody))} :
         \E o \in {IF q.pc = "done" THEN q ELSE DeleteGameLoadTarget(q, fail) : fail \in BOOLEAN} :
           Leave(r, o)
    /\ UNCHANGED Store

\* A test that lets every authenticated user delete.
MayDeleteGameAnyone(admin) == TRUE

\* The test of DELETE /games/:game_id on the loaded acting user.
MayDeleteGame(admin) == admin.admin

\* DELETE /games/:game_id after both loads: the decision and the response.
\* On success game.delete() has been called and is not awaited (pc "deleting").
DeleteGameDecide(q, admin, fail) ==
    LET p == [q EXCEPT !.admin = admin] IN
    IF fail THEN CatchId(q, "store", "Game not found")
    ELSE IF IsNull(p.game) THEN Respond(p, NotFound, Msg("Game not found"))
    ELSE IF IsNull(admin) THEN CatchId(p, "TypeError", "Game not found")
    ELSE IF MayDeleteGame(Doc(admin))
      THEN [Respond(p, OK, Msg("Game successfully deleted from our platform"))
              EXCEPT !.pc = "deleting"]
    ELSE Respond(p, Unauthorized, Msg("Not allowed to delete this game"))

\* DELETE /games/:game_id, resumed after User.findById(req.user.id).
DeleteGameLoadActor(r) ==
    /\ At(r, "DeleteGame", "loadActor")
    /\ \E o \in {DeleteGameDecide(req[r], FindById(req[r].uid), fail) : fail \in BOOLEAN} :
         Resume(r, o)
    /\ UNCHANGED Store

\* ------------------------------------------------- the un-awaited delete()
\* What the delete() of the request q removes from each collection.
UsersWithout(q) ==
    IF q.kind = "DeleteUser" THEN [u \in DOMAIN users \ {q.arg} |-> users[u]] ELSE users
GamesWithout(q) == IF q.kind = "DeleteGame" THEN games \ {q.arg} ELSE games

\* The delete() a handler called reaches the store: the document is removed.
DeleteApply(r) ==
    /\ Quiet
    /\ req[r].pc = "deleting"
    /\ users' = UsersWithout(req[r])
    /\ games' = GamesWithout(req[r])
    /\ req' = [req EXCEPT ![r] = Idle]
    /\ sent' = {}
    /\ UNCHANGED <<nextUid, nextGid, served>>

\* The delete() a handler called is rejected by the store: nobody handles the
\* rejection and the document stays. What Node does with an unhandled
\* rejection depends on its version: a warning, or the end of the process and
\* of the requests suspended in it.
DeleteReject(r) ==
    /\ Quiet
    /\ req[r].pc = "deleting"
    /\ \E exits \in BOOLEAN :
         /\ sent' = IF exits
                    THEN {req[x] : x \in {y \in Reqs : req[y].pc \notin {"idle", "deleting"}}}
                    ELSE {}
         /\ req' = [x \in Reqs |->
                      IF x = r \/ (exits /\ req[x].pc # "deleting") THEN Idle ELSE req[x]]
    /\ UNCHANGED <<Store, served>>

\* The responses of the latest step have been observed.
Deliver ==
    /\ ~Quiet
    /\ sent' = {}
    /\ UNCHANGED <<Store, req, served>>

\* ----------------------------------------------------------- specification
Next ==
    \/ Deliver
    \/ \E r \in Reqs : RegisterStart(r)
    \/ \E r \in Reqs : RegisterSave(r)
    \/ Login
    \/ GetAuth
    \/ ListUsers
    \/ \E r \in Reqs : DeleteUserStart(r)
    \/ \E r \in Reqs : DeleteUserLoadActor(r)
    \/ \E r \in Reqs : PostGameStart(r)
    \/ \E r \in Reqs : PostGameSave(r)
    \/ ListGames
    \/ GetGame
    \/ \E r \in Reqs : CompleteStart(r)
    \/ \E r \in Reqs : CompleteLoadGame(r)
    \/ \E r \in Reqs : CompleteSave(r)
    \/ \E r \in Reqs : DeleteGameStart(r)
    \/ \E r \in Reqs : DeleteGameLoadActor(r)
    \/ \E r \in Reqs : DeleteApply(r)
    \/ \E r \in Reqs : DeleteReject(r)

Spec == Init /\ [][Next]_vars

\* The server started on a store with or without an administrator.
SpecAnyStore == InitAnyStore /\ [][Next]_vars

\* ------------------------------------------------------------- properties
\* The requests suspended in a handler or past their response with a delete()
\* on its way.
InFlight == {req[r] : r \in {y \in Reqs : req[y].pc # "idle"}}

\* The request has been answered.
Answered(m) == m.pc \in {"done", "deleting"}

\* The handler loaded the acting user and it is not an administrator.
LoadedNonAdmin(m) == ~IsNull(m.admin) /\ ~Doc(m.admin).admin

\* The request is authenticated, its target exists, and its acting user is
\* loaded and may not do what it asks.
Disallowed(m) ==
    /\ LoadedNonAdmin(m)
    /\ \/ m.kind = "PostGame"
       \/ m.kind = "DeleteGame" /\ ~IsNull(m.game)
       \/ m.kind = "DeleteUser" /\ ~IsNull(m.user) /\ m.arg # m.uid

\* C1: when a user's completion of a game succeeds and another completion of
\* the same game by the same user has succeeded before (here: while this one
\* was in flight), the user's completed list holds exactly one reference to
\* the game.
C1_CompleteTwiceOneReference ==
    \A m \in sent :
      (m.kind = "Complete" /\ m.status = OK /\ m.prior /\ m.uid \in DOMAIN users)
        => Count(users[m.uid].games, m.arg) = 1

\* C2: after a successful completion of game g by an existing user, the
\* user's completed list contains g, whatever the list held before.
C2_CompleteAddsReference ==
    \A m \in sent :
      (m.kind = "Complete" /\ m.status = OK /\ m.uid \in DOMAIN users)
        => Count(users[m.uid].games, m.arg) >= 1

C4_NonAdminGameWrite ==
    /\ [](\A m \in sent :
            (m.kind \in {"PostGame", "DeleteGame"} /\ LoadedNonAdmin(m))
              => /\ m.pc = "done"
                 /\ m.status \in {Unauthorized, NotFound}
                 /\ m.status = NotFound => (m.kind = "DeleteGame" /\ IsNull(m.game)))
    /\ [](\A m \in InFlight :
            (m.kind \in {"PostGame", "DeleteGame"} /\ m.pc \in {"save", "deleting"})
              => ~LoadedNonAdmin(m))
    /\ [][games' # games =>
            \E r \in Reqs :
              /\ req[r].kind \in {"PostGame", "DeleteGame"}
              /\ req[r].pc \in {"save", "deleting"}
              /\ ~IsNull(req[r].admin) /\ Doc(req[r].admin).admin
              /\ req'[r] = Idle
              /\ \A x \in Reqs \ {r} : req'[x] = req[x]]_vars

\* C4, reached: a non-administrator asked to delete an existing game and got 401.
C4_NonAdminRejected ==
    \E m \in sent : /\ m.kind = "DeleteGame" /\ LoadedNonAdmin(m)
                    /\ ~IsNull(m.game) /\ m.status = Unauthorized
                    /\ m.arg \in games

\* C5: once DELETE /users/:user_id has loaded both the target and the acting
\* user, it answers 200 and issues the delete exactly when the acting user is
\* the target or an administrator, and 401 without a delete otherwise; every
\* removal of a user record is the delete of such a permitted request, and it
\* removes the target and nothing else.
C5_DeleteUserPolicy ==
    /\ [](\A m \in sent :
            (m.kind = "DeleteUser" /\ ~IsNull(m.user) /\ ~IsNull(m.admin))
              => IF m.arg = m.uid \/ Doc(m.admin).admin
                 THEN m.status = OK /\ m.pc = "deleting"
                 ELSE m.status = Unauthorized /\ m.pc = "done")
    /\ [](\A m \in InFlight :
            (m.kind = "DeleteUser" /\ m.pc = "deleting")
              => m.arg = m.uid \/ Doc(m.admin).admin)
    /\ [][DOMAIN users \ DOMAIN users' # {} =>
            \E r \in Reqs :
              /\ req[r].kind = "DeleteUser" /\ req[r].pc = "deleting"
              /\ req[r].arg = req[r].uid \/ Doc(req[r].admin).admin
              /\ req'[r] = Idle
              /\ DOMAIN users' = DOMAIN users \ {req[r].arg}
              /\ \A u \in DOMAIN users' : users'[u] = users[u]]_vars

\* C5, reached: a non-administrator asked to delete another existing user and
\* got 401.
C5_OtherUserRejected ==
    \E m \in sent : /\ m.kind = "DeleteUser" /\ LoadedNonAdmin(m) /\ ~IsNull(m.user)
                    /\ m.arg # m.uid /\ m.status = Unauthorized
                    /\ m.arg \in DOMAIN users

\* C6: a GET /games/:game_id that arrives after the success response of a
\* delete of that game finds nothing.
C6_DeletedUnfindable ==
    \A m \in sent : (m.kind = "GetGame" /\ m.afterAck) => m.status # OK

\* C7: every request that ends, whatever fails on its way, has been sent
\* exactly one response.
C7_ExactlyOneResponse ==
    \A m \in sent : m.nresp = 1

\* C8: the rejections unauthorized (no valid token), forbidden (authenticated,
\* not allowed) and not found carry pairwise distinct statuses, and a missing
\* target is reported as not found, not as forbidden.
C8_RejectionsDistinct ==
    /\ AuthDenied # NotFound
    /\ \A m \in sent :
         /\ Disallowed(m) => m.status \notin {AuthDenied, NotFound}
         /\ (m.kind = "DeleteGame" /\ ~IsNull(m.admin) /\ IsNull(m.game))
              => m.status = NotFound
         /\ (m.kind = "DeleteUser" /\ ~IsNull(m.admin) /\ IsNull(m.user))
              => m.status = NotFound

\* C9: on the six routes declared with auth the handler is never entered for a
\* request without a token or with an invalid one (the request is answered
\* unauthorized), and is entered exactly once, with the user id of the token,
\* for a request with a valid one; GET /games and GET /users enter their
\* handler without a token.
C9_AuthGate ==
    \A m \in sent \cup InFlight :
      /\ m.kind \in {"GetAuth", "DeleteUser", "PostGame", "GetGame", "Complete", "DeleteGame"}
           => /\ ~TokenValid(m.token)
                   => m.calls = 0 /\ m.status = AuthDenied /\ m.pc = "done"
              /\ TokenValid(m.token)
                   => m.calls = 1 /\ m.uid = TokenUserId(m.token)
      /\ (m.kind \in {"ListGames", "ListUsers"} /\ m.token = NoToken) => m.calls = 1

\* C9, reached: GET /games/:game_id with a valid token was answered from its
\* handler, entered once.
C9_ValidTokenEntered ==
    \E m \in sent : /\ m.kind = "GetGame" /\ TokenValid(m.token)
                    /\ m.calls = 1 /\ m.uid = TokenUserId(m.token) /\ m.status = OK

\* C10: a request that passed the auth check and the body validation with the
\* token of a user whose record is gone, on POST /games, or on DELETE
\* /games/:game_id or DELETE /users/:user_id with a target that exists, is
\* answered 500 when it is answered, and never reaches a write of the store.
C10_GoneActorFails ==
    /\ \A m \in sent :
         (/\ m.kind \in {"PostGame", "DeleteGame", "DeleteUser"}
          /\ m.actorGone /\ Answered(m) /\ ValidationPasses(m)
          /\ m.kind = "DeleteGame" => ~IsNull(m.game)
          /\ m.kind = "DeleteUser" => ~IsNull(m.user))
           => m.status = ServerError /\ m.pc = "done"
    /\ \A m \in InFlight :
         (m.kind \in {"PostGame", "DeleteGame", "DeleteUser"} /\ m.actorGone)
           => m.pc \notin {"save", "deleting"}

\* C10, reached: the token of a deleted user asked to delete an existing game:
\* reading admin.admin of the missing record threw, and the answer was 500.
C10_GoneActorDeleteGame ==
    \E m \in sent : /\ m.kind = "DeleteGame" /\ m.actorGone /\ ~IsNull(m.game)
                    /\ m.err = "TypeError" /\ m.status = ServerError
                    /\ m.arg \in games

\* C11: no response of any route carries a user's password hash: every record
\* in the body of a response, the user records of GET /users, GET /users/auth
\* and PUT /games/complete/:game_id included, has no password field.
C11_NoPasswordInResponse ==
    \A m \in sent : \A d \in m.body : "password" \notin DOMAIN d

\* C12: no operation raises privileges: a step never stores a new user with
\* the admin flag set, never changes the admin flag or the email of a user
\* that stays in the store, and never adds to the set of administrators, so
\* the administrators are always among those of the initial store; and from
\* an initial store without an administrator the set of games never changes.
C12_NoPrivilegeRaise ==
    /\ [][/\ \A u \in DOMAIN users' \ DOMAIN users : ~users'[u].admin
          /\ \A u \in DOMAIN users' \cap DOMAIN users :
               users'[u].admin = users[u].admin /\ users'[u].email = users[u].email
          /\ Admins' \subseteq Admins]_vars
    /\ (Admins = {}) => [](games = {1} /\ nextGid = 2)

\* C12, reached: in a store started without an administrator a user has
\* registered, asked to create a game, and been rejected.
C12_NoAdminStoreRejects ==
    /\ 1 \in DOMAIN users /\ ~users[1].admin
    /\ \E m \in sent : /\ m.kind = "PostGame" /\ m.status = Unauthorized
                       /\ m.uid \in DOMAIN users /\ m.uid # 1
                       /\ ~users[m.uid].admin

====
